---- MODULE Spec2Model ----
(***************************************************************************)
(* Model of notebooks/utils/data_preprocessing_utils.py: the schema        *)
(* normaliser (cast_columns_types), the aggregator (group_data), the       *)
(* cleaner (fill_missing_values, remove_outliers, process_data) and the    *)
(* feature extender (aggregate_data); and of                               *)
(* notebooks/utils/data_cleaning_utils.py: the readers (read_raw_data,     *)
(* read_large_file), the checkpoint writers (save_clean_data,              *)
(* save_processed_df) and the ingestion adapters (process_cardiff, the     *)
(* country adapters, the adapters that merge into a checkpoint).  There is *)
(* one specification for each of them, all over the                        *)
(* variables df (what the function is given), out (what it gives) and pc.  *)
(*                                                                         *)
(* A DataFrame is a record [columns, rows]: the column names in order and  *)
(* the rows in table order, each row a record over the columns.            *)
(* A timestamp is the number of seconds since 2024-01-01 00:00:00; the     *)
(* missing timestamp is NaT.  An admissions value is a count; the missing  *)
(* number is NaN.  Arithmetic is exact (integers and ratios of integers).  *)
(***************************************************************************)
EXTENDS Integers, Sequences, FiniteSets, TLC

VARIABLES df, out, pc

vars == <<df, out, pc>>

(***************************************************************************)
(* Values                                                                  *)
(***************************************************************************)
\* pd.to_numeric(errors='coerce') marks a missing number with NaN.
NaN == -1

\* pd.to_datetime(errors='coerce') marks a missing timestamp with NaT.
NaT == -1

SecondsPerDay == 86400

\* The days of the months of 2024.
MonthLen == <<31, 29, 31, 30, 31, 30, 31, 31, 30, 31, 30, 31>>

RECURSIVE DaysBeforeMonth(_)
DaysBeforeMonth(m) == IF m = 1 THEN 0 ELSE DaysBeforeMonth(m - 1) + MonthLen[m - 1]

\* Timestamp of midnight of month m, day d of 2024.
Date(m, d) == (DaysBeforeMonth(m) + d - 1) * SecondsPerDay

\* Timestamp.month and Timestamp.day
Month(t) ==
    LET o == t \div SecondsPerDay
    IN  CHOOSE m \in 1..12 : DaysBeforeMonth(m) <= o /\ o < DaysBeforeMonth(m) + MonthLen[m]

Day(t) == (t \div SecondsPerDay) - DaysBeforeMonth(Month(t)) + 1

\* The hospital labels of the model, in the order in which text sorts.
Hospitals == <<"A", "B">>

HospitalSet == {Hospitals[i] : i \in DOMAIN Hospitals}

TextRank(h) == CHOOSE i \in DOMAIN Hospitals : Hospitals[i] = h

Range(s) == {s[i] : i \in DOMAIN s}

Column(rows, c) == [i \in DOMAIN rows |-> rows[i][c]]

\* Series.sum(): missing values are skipped, the sum of nothing is 0.
RECURSIVE SeriesSum(_)
SeriesSum(s) ==
    IF s = <<>> THEN 0
    ELSE (IF Head(s) = NaN THEN 0 ELSE Head(s)) + SeriesSum(Tail(s))

EmptyFrame == [columns |-> <<>>, rows |-> <<>>]

(***************************************************************************)
(* group_data                                                              *)
(***************************************************************************)
time_col(d) == IF "datetime" \in Range(d.columns) THEN "datetime" ELSE "date"

\* The group keys of groupby(['hospital', time_col]): a row whose key holds a
\* missing value belongs to no group (dropna=True).
GroupKeys(d) ==
    {<<d.rows[i].hospital, d.rows[i][time_col(d)]>> :
        i \in {j \in DOMAIN d.rows : d.rows[j][time_col(d)] # NaT}}

KeyLess(a, b) ==
    \/ TextRank(a[1]) < TextRank(b[1])
    \/ a[1] = b[1] /\ a[2] < b[2]

\* sort_values(by=['hospital', time_col], ascending=[True, True]) of distinct keys
RECURSIVE SortKeys(_)
SortKeys(S) ==
    IF S = {} THEN <<>>
    ELSE LET m == CHOOSE x \in S : \A y \in S \ {x} : KeyLess(x, y)
         IN  <<m>> \o SortKeys(S \ {m})

\* agg({'admissions': 'sum'}) of one group
GroupSum(d, k) ==
    SeriesSum(Column(SelectSeq(d.rows,
        LAMBDA r : r.hospital = k[1] /\ r[time_col(d)] = k[2]), "admissions"))

group_data(d) ==
    LET tc   == time_col(d)
        keys == SortKeys(GroupKeys(d))
    IN  [columns |-> <<"hospital", tc, "admissions">>,
         rows    |-> [i \in DOMAIN keys |->
                        [c \in {"hospital", tc, "admissions"} |->
                            CASE c = "hospital"   -> keys[i][1]
                              [] c = "admissions" -> GroupSum(d, keys[i])
                              [] OTHER            -> keys[i][2]]]]

\* Bounds of the tables group_data is applied to.
MaxGroupRows == 3
MaxGroupAdm == 2

GroupDay1 == Date(3, 20)
GroupDay2 == Date(3, 21)

\* Rows with a date column, with a datetime column, and with both (date then
\* being the day of datetime).
GroupRows(cols) ==
    LET times == IF "datetime" \in Range(cols)
                 THEN {NaT, GroupDay1 + 600, GroupDay1 + 660}
                 ELSE {NaT, GroupDay1, GroupDay2}
    IN  {[c \in Range(cols) |->
             CASE c = "hospital"   -> h
               [] c = "admissions" -> a
               [] c = "datetime"   -> t
               [] OTHER            -> IF "datetime" \in Range(cols)
                                      THEN (IF t = NaT THEN NaT
                                            ELSE t - (t % SecondsPerDay))
                                      ELSE t] :
            h \in HospitalSet, t \in times, a \in {NaN} \cup (1..MaxGroupAdm)}

GroupColumns ==
    { <<"date", "admissions", "hospital">>,
      <<"datetime", "admissions", "hospital">>,
      <<"date", "datetime", "admissions", "hospital">> }

InitGroup ==
    /\ df \in {[columns |-> c, rows |-> <<>>] : c \in GroupColumns}
    /\ out = EmptyFrame
    /\ pc = "load"

LoadGroupRow ==
    /\ pc = "load"
    /\ Len(df.rows) < MaxGroupRows
    /\ \E r \in GroupRows(df.columns) : df' = [df EXCEPT !.rows = Append(@, r)]
    /\ UNCHANGED <<out, pc>>

GroupData ==
    /\ pc = "load"
    /\ out' = group_data(df)
    /\ pc' = "grouped"
    /\ UNCHANGED df

NextGroup == LoadGroupRow \/ GroupData

SpecGroup == InitGroup /\ [][NextGroup]_vars

C2_Pairs(d) == {<<d.rows[i].hospital, d.rows[i][time_col(d)]>> : i \in DOMAIN d.rows}

\* C1: group_data conserves total admissions: the sum of admissions over the
\* output rows equals the sum over all input rows, the rows with a missing
\* timestamp or a missing admissions value included.
C1_SumConserved ==
    pc = "grouped" =>
        SeriesSum(Column(out.rows, "admissions")) = SeriesSum(Column(df.rows, "admissions"))

\* C2: the output of group_data holds exactly one row for every distinct
\* (hospital, timestamp) pair of the input and no two output rows share a pair,
\* the timestamp being the datetime column when present and the date column
\* otherwise.
C2_OneRowPerPair ==
    pc = "grouped" =>
        /\ \A p \in C2_Pairs(df) :
              Cardinality({i \in DOMAIN out.rows :
                  <<out.rows[i].hospital, out.rows[i][time_col(df)]>> = p}) = 1
        /\ \A i, j \in DOMAIN out.rows :
              <<out.rows[i].hospital, out.rows[i][time_col(df)]>>
                  = <<out.rows[j].hospital, out.rows[j][time_col(df)]>> => i = j
        /\ time_col(df) \in Range(out.columns)

(***************************************************************************)
(* fill_missing_values                                                     *)
(***************************************************************************)
\* Series.ffill(): a missing value takes the last valid value before it.
RECURSIVE FFillFrom(_, _)
FFillFrom(s, last) ==
    IF s = <<>> THEN <<>>
    ELSE LET v == IF Head(s) = NaN THEN last ELSE Head(s)
         IN  <<v>> \o FFillFrom(Tail(s), v)

ffill(s) == FFillFrom(s, NaN)

\* The positions of the rows of hospital h, in table order.
RECURSIVE GroupIndexFrom(_, _, _)
GroupIndexFrom(rows, h, i) ==
    IF i > Len(rows) THEN <<>>
    ELSE (IF rows[i].hospital = h THEN <<i>> ELSE <<>>) \o GroupIndexFrom(rows, h, i + 1)

GroupIndex(rows, h) == GroupIndexFrom(rows, h, 1)

\* The admissions of hospital h, in table order.
GroupSeries(rows, h) ==
    LET idx == GroupIndex(rows, h) IN [k \in DOMAIN idx |-> rows[idx[k]].admissions]

\* df.groupby('hospital')['admissions'].transform(lambda x: x.ffill()): each
\* hospital's values are filled on their own and put back at their rows.
TransformFFill(rows) ==
    [i \in DOMAIN rows |->
        LET idx == GroupIndex(rows, rows[i].hospital)
            k   == CHOOSE n \in DOMAIN idx : idx[n] = i
        IN  ffill(GroupSeries(rows, rows[i].hospital))[k]]

\* A faulty variant: the fill runs over the whole column, not per hospital.
fill_missing_values_ungrouped(d) ==
    [d EXCEPT !.rows = [i \in DOMAIN d.rows |->
        [d.rows[i] EXCEPT !.admissions = ffill(Column(d.rows, "admissions"))[i]]]]

fill_missing_values(d) ==
    [d EXCEPT !.rows = [i \in DOMAIN d.rows |->
        [d.rows[i] EXCEPT !.admissions = TransformFFill(d.rows)[i]]]]

\* Bounds of the tables fill_missing_values is applied to.
MaxFillRows == 5

FillValues == {5, 10, 20}

FillColumns == <<"date", "admissions", "hospital">>

\* The rows arrive one per day.
FillRows(d) ==
    {[date |-> Date(1, 1) + Len(d.rows) * SecondsPerDay, admissions |-> a, hospital |-> h] :
        h \in HospitalSet, a \in {NaN} \cup FillValues}

InitFill ==
    /\ df = [columns |-> FillColumns, rows |-> <<>>]
    /\ out = EmptyFrame
    /\ pc = "load"

LoadFillRow ==
    /\ pc = "load"
    /\ Len(df.rows) < MaxFillRows
    /\ \E r \in FillRows(df) : df' = [df EXCEPT !.rows = Append(@, r)]
    /\ UNCHANGED <<out, pc>>

FillMissingValues ==
    /\ pc = "load"
    /\ out' = fill_missing_values(df)
    /\ pc' = "filled"
    /\ UNCHANGED df

NextFill == LoadFillRow \/ FillMissingValues

SpecFill == InitFill /\ [][NextFill]_vars

C3_SetMax(S) == CHOOSE x \in S : \A y \in S : y <= x

\* C3: fill_missing_values replaces every missing admissions value by the last
\* preceding valid value of the same hospital, never by a value of another
\* hospital, and leaves a missing value with no preceding valid value of its
\* hospital missing; the series [10, null, null, 20] of a hospital becomes
\* [10, 10, 10, 20] and [null, 5] stays [null, 5].
C3_ForwardFillPerHospital ==
    pc = "filled" =>
        /\ Len(out.rows) = Len(df.rows)
        /\ \A i \in DOMAIN df.rows :
              LET prev == {j \in 1..(i - 1) :
                              /\ df.rows[j].hospital = df.rows[i].hospital
                              /\ df.rows[j].admissions # NaN}
              IN  /\ out.rows[i].hospital = df.rows[i].hospital
                  /\ out.rows[i].date = df.rows[i].date
                  /\ out.rows[i].admissions =
                        IF df.rows[i].admissions # NaN THEN df.rows[i].admissions
                        ELSE IF prev = {} THEN NaN
                        ELSE df.rows[C3_SetMax(prev)].admissions
        /\ \A h \in HospitalSet :
              /\ GroupSeries(df.rows, h) = <<10, NaN, NaN, 20>>
                    => GroupSeries(out.rows, h) = <<10, 10, 10, 20>>
              /\ GroupSeries(df.rows, h) = <<NaN, 5>>
                    => GroupSeries(out.rows, h) = <<NaN, 5>>

\* A hospital with the series [10, null, null, 20] was filled while a row of
\* another hospital, holding another value, stood right before one of its
\* missing values.
C3_Witness ==
    /\ pc = "filled"
    /\ \E h \in HospitalSet : GroupSeries(df.rows, h) = <<10, NaN, NaN, 20>>
    /\ \E i \in 2..Len(df.rows) :
          /\ df.rows[i].admissions = NaN
          /\ df.rows[i - 1].hospital # df.rows[i].hospital
          /\ df.rows[i - 1].admissions = 5
          /\ out.rows[i].admissions = 10

(***************************************************************************)
(* remove_outliers                                                         *)
(*                                                                         *)
(* With n valid values of sum S, the mean is S / n and the deviation of a  *)
(* value v from it is (n * v - S) / n.  Series.std() is the sample         *)
(* standard deviation (ddof = 1):                                          *)
(*     std^2 = sqdev / (n * n * (n - 1)),  sqdev = sum of (n * x - S)^2,   *)
(* a missing number when n < 2; the mean is a missing number when n = 0.   *)
(* The comparisons with avg - k * std and avg + k * std are made on the    *)
(* squares, which is exact where the square root is irrational.            *)
(***************************************************************************)
\* The valid values of a series (skipna).
Valid(s) == SelectSeq(s, LAMBDA v : v # NaN)

RECURSIVE SumSq(_)
SumSq(s) == IF s = <<>> THEN 0 ELSE Head(s) * Head(s) + SumSq(Tail(s))

\* Series.mean(): the ratio sum / n
SeriesMean(s) == [sum |-> SeriesSum(s), n |-> Len(Valid(s))]

\* Series.std(): the root of sqdev / (n * n * (n - 1))
SeriesStd(s) ==
    LET x == Valid(s)
    IN  [sqdev |-> SumSq([i \in DOMAIN x |-> Len(x) * x[i] - SeriesSum(s)]), n |-> Len(x)]

IsNumber(avg, std) == avg.n >= 1 /\ std.n >= 2

\* The factor of std in low and high.
BandFactor == 2

\* v >= avg - k * std
GeLow(v, avg, std, k) ==
    LET dev == avg.n * v - avg.sum
    IN  dev >= 0 \/ dev * dev * (std.n - 1) <= k * k * std.sqdev

\* v <= avg + k * std
LeHigh(v, avg, std, k) ==
    LET dev == avg.n * v - avg.sum
    IN  dev <= 0 \/ dev * dev * (std.n - 1) <= k * k * std.sqdev

\* Series.between(low, high, inclusive='both'): false for a missing value and
\* for a missing bound.
Between(v, avg, std, k) ==
    /\ v # NaN
    /\ IsNumber(avg, std)
    /\ GeLow(v, avg, std, k)
    /\ LeHigh(v, avg, std, k)

\* A faulty variant: mean and standard deviation are taken per hospital.
remove_outliers_per_hospital(d, column) ==
    [d EXCEPT !.rows = SelectSeq(d.rows, LAMBDA r :
        LET s == Column(SelectSeq(d.rows, LAMBDA q : q.hospital = r.hospital), column)
        IN  Between(r[column], SeriesMean(s), SeriesStd(s), BandFactor))]

\* A faulty variant: the band is one standard deviation wide.
remove_outliers_narrow(d, column) ==
    LET avg == SeriesMean(Column(d.rows, column))
        std == SeriesStd(Column(d.rows, column))
    IN  [d EXCEPT !.rows = SelectSeq(d.rows, LAMBDA r : Between(r[column], avg, std, 1))]

\* The rows of d whose value lies in [avg - 2 * std, avg + 2 * std].
remove_outliers(d, column) ==
    LET avg == SeriesMean(Column(d.rows, column))
        std == SeriesStd(Column(d.rows, column))
    IN  [d EXCEPT !.rows =
            SelectSeq(d.rows, LAMBDA r : Between(r[column], avg, std, BandFactor))]

\* Bounds of the tables remove_outliers is applied to.
MaxOutlierRows == 6

OutlierValues == {1, 2, 3, 4, 5, 6, 100}

\* A table with the admissions column and one without it.
OutlierColumns == {<<"date", "admissions", "hospital">>, <<"date", "hospital">>}

\* The order in which the rows are loaded: by admissions, then by hospital.
RowOrdered(r, q) ==
    \/ r.admissions < q.admissions
    \/ r.admissions = q.admissions /\ TextRank(r.hospital) <= TextRank(q.hospital)

OutlierRows(d) ==
    IF "admissions" \in Range(d.columns)
    THEN {r \in {[date |-> Date(1, 1) + Len(d.rows) * SecondsPerDay,
                  admissions |-> a, hospital |-> h] :
                    h \in HospitalSet, a \in {NaN} \cup OutlierValues} :
            d.rows # <<>> => RowOrdered(d.rows[Len(d.rows)], r)}
    ELSE {[date |-> Date(1, 1) + Len(d.rows) * SecondsPerDay, hospital |-> h] :
            h \in HospitalSet}

InitOutliers ==
    /\ df \in {[columns |-> c, rows |-> <<>>] : c \in OutlierColumns}
    /\ out = EmptyFrame
    /\ pc = "load"

LoadOutlierRow ==
    /\ pc = "load"
    /\ Len(df.rows) < MaxOutlierRows
    /\ \E r \in OutlierRows(df) : df' = [df EXCEPT !.rows = Append(@, r)]
    /\ UNCHANGED <<out, pc>>

\* remove_outliers(df, "admissions"), as process_data calls it
RemoveOutliers ==
    /\ pc = "load"
    /\ IF "admissions" \notin Range(df.columns)
       THEN /\ pc' = "ValueError"
            /\ UNCHANGED <<df, out>>
       ELSE /\ out' = remove_outliers(df, "admissions")
            /\ pc' = "filtered"
            /\ UNCHANGED df

NextOutliers == LoadOutlierRow \/ RemoveOutliers

SpecOutliers == InitOutliers /\ [][NextOutliers]_vars

\* The admissions of all rows of the table: their number, sum and sum of squares.
C4_N == Len(Valid(Column(df.rows, "admissions")))
C4_S == SeriesSum(Column(df.rows, "admissions"))
C4_Q == SumSq(Valid(Column(df.rows, "admissions")))

\* (v - mu)^2 <= (2 sigma)^2 with mu = S / N and sigma^2 = (Q - S^2 / N) / (N - 1),
\* both sides multiplied by N^2 * (N - 1).
C4_InBand(v) ==
    /\ v # NaN
    /\ C4_N >= 2
    /\ (C4_N * v - C4_S) * (C4_N * v - C4_S) * (C4_N - 1)
          <= 4 * C4_N * (C4_N * C4_Q - C4_S * C4_S)

dayofweek(t) == IF t = NaT THEN NaN ELSE (t \div SecondsPerDay) % 7

\* isin([5, 6]).astype(int)
is_weekend(dow) == IF dow \in {5, 6} THEN 1 ELSE 0

\* A faulty variant: spring begins one day late.
get_season_late(date) ==
    IF date = NaT THEN 4
    ELSE LET md == Month(date) * 100 + Day(date)
         IN  IF md > 321 /\ md <= 620 THEN 1
             ELSE IF md >= 621 /\ md <= 922 THEN 2
             ELSE IF md >= 923 /\ md <= 1220 THEN 3
             ELSE 4

\* get_season: month and day of NaT are missing numbers, every comparison with
\* them is false, and the last branch returns 4.
get_season(date) ==
    IF date = NaT THEN 4
    ELSE LET md == Month(date) * 100 + Day(date)
         IN  IF md >= 321 /\ md <= 620 THEN 1
             ELSE IF md >= 621 /\ md <= 922 THEN 2
             ELSE IF md >= 923 /\ md <= 1220 THEN 3
             ELSE 4

\* The order of the rows with equal keys that a sort leaves: the table order, or
\* (a sort that is not stable) its reverse.
TieOrders == {"stable", "reversed"}

\* i sorts before j: by the keys (sequences of numbers, compared from the left),
\* then by position.
RECURSIVE KeysLess(_, _)
KeysLess(a, b) ==
    /\ a # <<>>
    /\ \/ Head(a) < Head(b)
       \/ Head(a) = Head(b) /\ KeysLess(Tail(a), Tail(b))

SortsBefore(keys, i, j, tie) ==
    \/ KeysLess(keys[i], keys[j])
    \/ keys[i] = keys[j] /\ (IF tie = "stable" THEN i < j ELSE i > j)

\* The positions S of a table in ascending order of their keys.
RECURSIVE SortIndex(_, _, _)
SortIndex(keys, S, tie) ==
    IF S = {} THEN <<>>
    ELSE LET m == CHOOSE i \in S : \A j \in S \ {i} : SortsBefore(keys, i, j, tie)
         IN  <<m>> \o SortIndex(keys, S \ {m}, tie)

\* The sort key of a timestamp: missing timestamps sort last (na_position='last').
TimeKey(t) == IF t = NaT THEN <<1, 0>> ELSE <<0, t>>

\* rows.sort_values(tc)
SortByTime(rows, tc, tie) ==
    LET idx == SortIndex([i \in DOMAIN rows |-> TimeKey(rows[i][tc])], DOMAIN rows, tie)
    IN  [k \in DOMAIN idx |-> rows[idx[k]]]

\* rows.sort_values(['hospital', tc]): a sort by several columns is stable.
SortByHospitalTime(rows, tc) ==
    LET idx == SortIndex([i \in DOMAIN rows |->
                            <<TextRank(rows[i].hospital)>> \o TimeKey(rows[i][tc])],
                         DOMAIN rows, "stable")
    IN  [k \in DOMAIN idx |-> rows[idx[k]]]

\* A faulty variant: the values move one place less.
ShiftShort(s, k) == [i \in DOMAIN s |-> IF i <= k - 1 THEN NaN ELSE s[i - (k - 1)]]

\* Series.shift(k): the value k places earlier, missing for the first k places.
Shift(s, k) == [i \in DOMAIN s |-> IF i <= k THEN NaN ELSE s[i - k]]

\* A mean is a ratio num / den; the missing mean is 0 / 0.
NaNMean == [num |-> 0, den |-> 0]

\* A faulty variant: the mean of the values there are (min_periods=1).
RollingMeanPartial(s, w) ==
    [i \in DOMAIN s |->
        LET win == Valid(SubSeq(s, IF i > w THEN i - w + 1 ELSE 1, i))
        IN  IF win = <<>> THEN NaNMean ELSE [num |-> SeriesSum(win), den |-> Len(win)]]

\* Series.rolling(window=w).mean(): the mean of the w values ending at each
\* place, missing unless all w are there and valid (min_periods = w).
RollingMean(s, w) ==
    [i \in DOMAIN s |->
        IF i < w THEN NaNMean
        ELSE LET win == SubSeq(s, i - w + 1, i)
             IN  IF \E n \in DOMAIN win : win[n] = NaN THEN NaNMean
                 ELSE [num |-> SeriesSum(win), den |-> w]]

\* add_lags: the rows of one hospital, sorted by time, with their lags and
\* rolling means.
add_lags(group, tc, tie) ==
    LET sorted == SortByTime(group, tc, tie)
        adm    == Column(sorted, "admissions")
    IN  [i \in DOMAIN sorted |->
            [lag_7      |-> Shift(adm, 7)[i],
             lag_14     |-> Shift(adm, 14)[i],
             rolling_7  |-> RollingMean(Shift(adm, 1), 7)[i],
             rolling_14 |-> RollingMean(Shift(adm, 1), 14)[i]] @@ sorted[i]]

\* A faulty variant: add_lags is applied to the table as one group.
ApplyAddLagsUngrouped(rows, tc, tie, n) == add_lags(rows, tc, tie)

\* df.groupby('hospital').apply(add_lags): the groups in the order of their
\* keys, one after the other.
RECURSIVE ApplyAddLags(_, _, _, _)
ApplyAddLags(rows, tc, tie, n) ==
    IF n > Len(Hospitals) THEN <<>>
    ELSE add_lags(SelectSeq(rows, LAMBDA r : r.hospital = Hospitals[n]), tc, tie)
            \o ApplyAddLags(rows, tc, tie, n + 1)

aggregate_data(d, tie) ==
    LET tc  == time_col(d)
        cal == [i \in DOMAIN d.rows |->
                  [day_of_week |-> dayofweek(d.rows[i][tc]),
                   is_weekend  |-> is_weekend(dayofweek(d.rows[i][tc])),
                   season      |-> get_season(d.rows[i][tc])] @@ d.rows[i]]
    IN  [columns |-> d.columns \o <<"day_of_week", "is_weekend", "season",
                                    "lag_7", "lag_14", "rolling_7", "rolling_14">>,
         rows    |-> SortByHospitalTime(ApplyAddLags(cal, tc, tie, 1), tc)]

\* Bounds of the tables aggregate_data is applied to: the rows of the hospital
\* whose series is followed, and the rows of the other hospital.
MaxSeriesRows == 16
MaxOtherRows == 2

SeriesStart == Date(3, 14)

\* The admissions of the k-th day of the series: the day number, a pattern
\* that is not monotone, and the day number with one missing value.
SeriesPatterns == {"count", "square", "gap"}

SeriesValue(p, k) ==
    CASE p = "count"  -> k
      [] p = "square" -> ((k * k) % 5) + 1
      [] p = "gap"    -> IF k = 4 THEN NaN ELSE k

SeriesRows(h, tc, n, p) ==
    [k \in 1..n |->
        [c \in {"hospital", tc, "admissions"} |->
            CASE c = "hospital"   -> h
              [] c = "admissions" -> (IF h = Hospitals[1] THEN SeriesValue(p, k) ELSE 50 + k)
              [] OTHER            -> SeriesStart + (k - 1) * SecondsPerDay]]

\* The table orders: by time, by time descending, the odd days before the even.
TableOrders == {"sorted", "reversed", "odd_even"}

Reordered(rows, o) ==
    CASE o = "sorted"   -> rows
      [] o = "reversed" -> [i \in DOMAIN rows |-> rows[Len(rows) + 1 - i]]
      [] o = "odd_even" -> SelectSeq([i \in DOMAIN rows |-> <<i, rows[i]>>],
                                     LAMBDA x : x[1] % 2 = 1)
                           \o SelectSeq([i \in DOMAIN rows |-> <<i, rows[i]>>],
                                        LAMBDA x : x[1] % 2 = 0)

Unindexed(rows, o) ==
    IF o = "odd_even" THEN [i \in DOMAIN rows |-> Reordered(rows, o)[i][2]]
    ELSE Reordered(rows, o)

\* The rows of a and of b in turn.
RECURSIVE Interleave(_, _)
Interleave(a, b) ==
    IF a = <<>> THEN b
    ELSE IF b = <<>> THEN a
    ELSE <<Head(a), Head(b)>> \o Interleave(Tail(a), Tail(b))

\* One more row of the first hospital: none, a second row for the second day
\* of the series, or a row with a missing timestamp.
ExtraKinds == {"none", "second", "missing"}

ExtraRows(tc, x) ==
    CASE x = "none"    -> <<>>
      [] x = "second"  -> <<[c \in {"hospital", tc, "admissions"} |->
                              CASE c = "hospital" -> Hospitals[1] [] c = "admissions" -> 9
                                [] OTHER -> SeriesStart + SecondsPerDay]>>
      [] x = "missing" -> <<[c \in {"hospital", tc, "admissions"} |->
                              CASE c = "hospital" -> Hospitals[1] [] c = "admissions" -> 7
                                [] OTHER -> NaT]>>

SeriesTables ==
    {[columns |-> <<tc, "admissions", "hospital">>,
      rows    |-> ExtraRows(tc, x) \o Interleave(Unindexed(SeriesRows(Hospitals[1], tc, n, p), o),
                                  SeriesRows(Hospitals[2], tc, m, p))] :
        tc \in {"date", "datetime"}, n \in 0..MaxSeriesRows, p \in SeriesPatterns,
        o \in TableOrders, m \in 0..MaxOtherRows, x \in ExtraKinds}

\* One table of one row for every day of 2024.
CalendarTables ==
    {[columns |-> <<"date", "admissions", "hospital">>,
      rows    |-> <<[date |-> t * SecondsPerDay, admissions |-> 1, hospital |-> Hospitals[1]]>>] :
        t \in 0..365}

InitAggregate ==
    /\ df \in SeriesTables \cup CalendarTables
    /\ out = EmptyFrame
    /\ pc = "load"

AggregateData ==
    /\ pc = "load"
    /\ \E tie \in TieOrders : out' = aggregate_data(df, tie)
    /\ pc' = "aggregated"
    /\ UNCHANGED df

NextAggregate == AggregateData

SpecAggregate == InitAggregate /\ [][NextAggregate]_vars

\* C6: for every calendar date the season computed by aggregate_data from the
\* key month * 100 + day is exactly one value in 1..4: 1 for Mar 21 to Jun 20,
\* 2 for Jun 21 to Sep 22, 3 for Sep 23 to Dec 20 and 4 for every other date;
\* 03-21 maps to 1, 03-20 to 4, 12-21 to 4 and 12-20 to 3.
C6_SeasonOfDate ==
    pc = "aggregated" =>
        \A i \in DOMAIN out.rows :
            LET t == out.rows[i][time_col(df)]
                m == Month(t)
                d == Day(t)
                spring == (m = 3 /\ d >= 21) \/ m \in {4, 5} \/ (m = 6 /\ d <= 20)
                summer == (m = 6 /\ d >= 21) \/ m \in {7, 8} \/ (m = 9 /\ d <= 22)
                autumn == (m = 9 /\ d >= 23) \/ m \in {10, 11} \/ (m = 12 /\ d <= 20)
            IN  t # NaT =>
                  /\ out.rows[i].season \in 1..4
                  /\ out.rows[i].season =
                        IF spring THEN 1 ELSE IF summer THEN 2 ELSE IF autumn THEN 3 ELSE 4
                  /\ t = Date(3, 21) => out.rows[i].season = 1
                  /\ t = Date(3, 20) => out.rows[i].season = 4
                  /\ t = Date(12, 21) => out.rows[i].season = 4
                  /\ t = Date(12, 20) => out.rows[i].season = 3

\* A table with the rows of 03-20 and 03-21 was aggregated: seasons 4 and 1.
C6_Witness ==
    /\ pc = "aggregated"
    /\ \E i, j \in DOMAIN out.rows :
          /\ out.rows[i][time_col(df)] = Date(3, 20) /\ out.rows[i].season = 4
          /\ out.rows[j][time_col(df)] = Date(3, 21) /\ out.rows[j].season = 1

\* The number of rows of a table equal to r on the columns of the input.
C7_CountOf(rows, r, cols) ==
    Cardinality({i \in DOMAIN rows : \A c \in cols : rows[i][c] = r[c]})

\* The output holds the rows of the input, each hospital's rows in ascending
\* order of time (missing timestamps last).
C7_SortedSeries ==
    /\ Len(out.rows) = Len(df.rows)
    /\ \A i \in DOMAIN df.rows :
          C7_CountOf(out.rows, df.rows[i], Range(df.columns))
              = C7_CountOf(df.rows, df.rows[i], Range(df.columns))
    /\ \A i, j \in DOMAIN out.rows :
          (i < j /\ out.rows[i].hospital = out.rows[j].hospital) =>
              \/ out.rows[j][time_col(df)] = NaT
              \/ /\ out.rows[i][time_col(df)] # NaT
                 /\ out.rows[i][time_col(df)] <= out.rows[j][time_col(df)]

\* C7: in the output of aggregate_data, for the row at position i of its
\* hospital's series sorted ascending by time, lag_7 is the admissions value at
\* position i - 7 of the same hospital and lag_14 that at position i - 14, and is
\* missing when there is no such position; for 14 daily rows valued 1..14, lag_7
\* at the 8th row is 1.
C7_Lags ==
    pc = "aggregated" =>
        /\ C7_SortedSeries
        /\ \A h \in HospitalSet :
              LET idx == GroupIndex(out.rows, h)
                  adm == GroupSeries(out.rows, h)
              IN  /\ \A i \in DOMAIN idx :
                        /\ out.rows[idx[i]].lag_7 = IF i > 7 THEN adm[i - 7] ELSE NaN
                        /\ out.rows[idx[i]].lag_14 = IF i > 14 THEN adm[i - 14] ELSE NaN
                  /\ adm = [k \in 1..14 |-> k] => out.rows[idx[8]].lag_7 = 1

\* A table that is not in time order, with rows of both hospitals, was
\* aggregated: the 8th row of a hospital has the lag_7 of its 1st row and its
\* 15th row the lag_14 of its 1st row.
C7_Witness ==
    /\ pc = "aggregated"
    /\ \E i \in 2..Len(df.rows) :
          /\ df.rows[i].hospital = df.rows[i - 1].hospital
          /\ df.rows[i][time_col(df)] < df.rows[i - 1][time_col(df)]
    /\ {df.rows[i].hospital : i \in DOMAIN df.rows} = HospitalSet
    /\ \E h \in HospitalSet :
          LET idx == GroupIndex(out.rows, h)
          IN  /\ Len(idx) >= 15
              /\ out.rows[idx[8]].lag_7 = 1
              /\ out.rows[idx[1]].admissions = 1
              /\ out.rows[idx[15]].lag_14 = 1
              /\ out.rows[idx[15]].lag_7 = 8

\* The mean of the admissions at the w positions before position i of a series:
\* missing when there are fewer than w positions before i, or when one of the w
\* values is missing.
C8_MeanBefore(adm, i, w) ==
    IF i <= w \/ (\E k \in (i - w)..(i - 1) : adm[k] = NaN) THEN NaNMean
    ELSE [num |-> SeriesSum(SubSeq(adm, i - w, i - 1)), den |-> w]

\* C8: in the output of aggregate_data, for the row at position i of its
\* hospital's time-sorted series, rolling_7 (rolling_14) is the mean of the
\* admissions at positions i-7..i-1 (i-14..i-1) of the same hospital, the current
\* row excluded, and is missing for every row with fewer than 7 (14) preceding
\* rows in that hospital; for 14 daily rows valued 1..14, rolling_7 at the 8th
\* row is 4.
C8_RollingMeans ==
    pc = "aggregated" =>
        \A h \in HospitalSet :
            LET idx == GroupIndex(out.rows, h)
                adm == GroupSeries(out.rows, h)
            IN  /\ \A i \in DOMAIN idx :
                      /\ out.rows[idx[i]].rolling_7 = C8_MeanBefore(adm, i, 7)
                      /\ out.rows[idx[i]].rolling_14 = C8_MeanBefore(adm, i, 14)
                      /\ i <= 7 => out.rows[idx[i]].rolling_7 = NaNMean
                      /\ i <= 14 => out.rows[idx[i]].rolling_14 = NaNMean
                /\ adm = [k \in 1..14 |-> k] =>
                      out.rows[idx[8]].rolling_7.num = 4 * out.rows[idx[8]].rolling_7.den

\* A table of both hospitals that is not in time order was aggregated: the 8th
\* row of a hospital has the mean 28 / 7 of its first seven values 1..7, its
\* 15th row the mean 105 / 14 of its first fourteen, its 14th row none.
C8_Witness ==
    /\ pc = "aggregated"
    /\ {df.rows[i].hospital : i \in DOMAIN df.rows} = HospitalSet
    /\ df.rows[1][time_col(df)] > df.rows[2][time_col(df)]
    /\ \E h \in HospitalSet :
          LET idx == GroupIndex(out.rows, h)
          IN  /\ Len(idx) >= 15
              /\ out.rows[idx[8]].rolling_7 = [num |-> 28, den |-> 7]
              /\ out.rows[idx[14]].rolling_14 = NaNMean
              /\ out.rows[idx[15]].rolling_14 = [num |-> 105, den |-> 14]

(***************************************************************************)
(* cast_columns_types                                                      *)
(*                                                                         *)
(* A raw cell is text (a sequence of characters), a number, a timestamp or *)
(* None: [kind, str, num], kind being "str", "num", "ts" or "none".  The   *)
(* model holds the timestamps of the year 2024.                            *)
(***************************************************************************)
StrCell(s) == [kind |-> "str", str |-> s, num |-> 0]
NumCell(n) == [kind |-> "num", str |-> <<>>, num |-> n]
TsCell(t) == [kind |-> "ts", str |-> <<>>, num |-> t]
NoneCell == [kind |-> "none", str |-> <<>>, num |-> 0]

DigitChars == <<"0", "1", "2", "3", "4", "5", "6", "7", "8", "9">>

IsDigit(c) == \E i \in DOMAIN DigitChars : DigitChars[i] = c

DigitOf(c) == (CHOOSE i \in DOMAIN DigitChars : DigitChars[i] = c) - 1

AllDigits(s) == \A i \in DOMAIN s : IsDigit(s[i])

\* int(s) of a text of digits
RECURSIVE ToNumber(_)
ToNumber(s) ==
    IF s = <<>> THEN 0
    ELSE 10 * ToNumber(SubSeq(s, 1, Len(s) - 1)) + DigitOf(s[Len(s)])

\* str(n) of a number n >= 0
RECURSIVE NumberToStr(_)
NumberToStr(n) ==
    IF n < 10 THEN <<DigitChars[n + 1]>>
    ELSE NumberToStr(n \div 10) \o <<DigitChars[(n % 10) + 1]>>

\* n in two digits
TwoDigits(n) == <<DigitChars[(n \div 10) + 1], DigitChars[(n % 10) + 1]>>

\* str.strip()
RECURSIVE LStrip(_)
LStrip(s) == IF s # <<>> /\ Head(s) = " " THEN LStrip(Tail(s)) ELSE s

RECURSIVE RStrip(_)
RStrip(s) ==
    IF s # <<>> /\ s[Len(s)] = " " THEN RStrip(SubSeq(s, 1, Len(s) - 1)) ELSE s

Strip(s) == RStrip(LStrip(s))

\* str(x) of a cell that is no timestamp
ObjectToStr(cell) ==
    CASE cell.kind = "str"  -> cell.str
      [] cell.kind = "none" -> <<"N", "o", "n", "e">>
      [] cell.kind = "num"  -> IF cell.num = NaN THEN <<"n", "a", "n">>
                               ELSE NumberToStr(cell.num)
      [] OTHER              -> <<>>

YearText == <<"2", "0", "2", "4">>

\* A faulty variant: a timestamp is always written as its date.
TimestampToStrDate(t, dates_only) ==
    IF t = NaT THEN <<"N", "a", "T">>
    ELSE YearText \o <<"-">> \o TwoDigits(Month(t)) \o <<"-">> \o TwoDigits(Day(t))

\* The text of a timestamp: YYYY-MM-DD, followed by HH:MM:SS unless the whole
\* column holds dates only.
TimestampToStr(t, dates_only) ==
    IF t = NaT THEN <<"N", "a", "T">>
    ELSE YearText \o <<"-">> \o TwoDigits(Month(t)) \o <<"-">> \o TwoDigits(Day(t))
         \o (IF dates_only THEN <<>>
             ELSE <<" ">> \o TwoDigits((t % SecondsPerDay) \div 3600)
                  \o <<":">> \o TwoDigits((t % 3600) \div 60)
                  \o <<":">> \o TwoDigits(t % 60))

\* Series.astype(str): a datetime64 column is written in one format, a column
\* of objects cell by cell.
AsTypeStr(col) ==
    IF col # <<>> /\ \A i \in DOMAIN col : col[i].kind = "ts"
    THEN LET dates_only ==
                \A i \in DOMAIN col : col[i].num = NaT \/ col[i].num % SecondsPerDay = 0
         IN  [i \in DOMAIN col |-> TimestampToStr(col[i].num, dates_only)]
    ELSE [i \in DOMAIN col |-> ObjectToStr(col[i])]

\* The timestamp of year y, month m, day d and second s of the day, when there
\* is such a day.
MakeTimestamp(y, m, d, s) ==
    IF y = ToNumber(YearText) /\ m \in 1..12 /\ s < SecondsPerDay
    THEN (IF d \in 1..MonthLen[m] THEN Date(m, d) + s ELSE NaT)
    ELSE NaT

\* str.match(r'^\d{8}$')
MatchesEightDigits(s) == Len(s) = 8 /\ AllDigits(s)

\* The text is YYYYMMDD / YYYY-MM-DD / YYYY-MM-DD HH:MM:SS.
IsYmd(s) == MatchesEightDigits(s)

IsIsoDate(s) ==
    /\ Len(s) = 10
    /\ s[5] = "-" /\ s[8] = "-"
    /\ AllDigits(SubSeq(s, 1, 4) \o SubSeq(s, 6, 7) \o SubSeq(s, 9, 10))

IsIsoDateTime(s) ==
    /\ Len(s) = 19
    /\ IsIsoDate(SubSeq(s, 1, 10))
    /\ s[11] = " " /\ s[14] = ":" /\ s[17] = ":"
    /\ AllDigits(SubSeq(s, 12, 13) \o SubSeq(s, 15, 16) \o SubSeq(s, 18, 19))

\* strptime(s, '%Y%m%d')
ParseYmd(s) ==
    IF IsYmd(s)
    THEN MakeTimestamp(ToNumber(SubSeq(s, 1, 4)), ToNumber(SubSeq(s, 5, 6)),
                       ToNumber(SubSeq(s, 7, 8)), 0)
    ELSE NaT

ParseIsoDate(s) ==
    MakeTimestamp(ToNumber(SubSeq(s, 1, 4)), ToNumber(SubSeq(s, 6, 7)),
                  ToNumber(SubSeq(s, 9, 10)), 0)

ParseIsoDateTime(s) ==
    IF ToNumber(SubSeq(s, 12, 13)) < 24 /\ ToNumber(SubSeq(s, 15, 16)) < 60
          /\ ToNumber(SubSeq(s, 18, 19)) < 60
    THEN MakeTimestamp(ToNumber(SubSeq(s, 1, 4)), ToNumber(SubSeq(s, 6, 7)),
                       ToNumber(SubSeq(s, 9, 10)),
                       ToNumber(SubSeq(s, 12, 13)) * 3600
                          + ToNumber(SubSeq(s, 15, 16)) * 60 + ToNumber(SubSeq(s, 18, 19)))
    ELSE NaT

\* The format of a text that parses as a date, "" when it does not.
DateFormatOf(s) ==
    IF IsYmd(s) /\ ParseYmd(s) # NaT THEN "%Y%m%d"
    ELSE IF IsIsoDate(s) /\ ParseIsoDate(s) # NaT THEN "%Y-%m-%d"
    ELSE IF IsIsoDateTime(s) /\ ParseIsoDateTime(s) # NaT THEN "%Y-%m-%d %H:%M:%S"
    ELSE ""

\* General parsing of one text; what does not parse is NaT (errors='coerce').
ParseDate(s) ==
    IF IsYmd(s) THEN ParseYmd(s)
    ELSE IF IsIsoDate(s) THEN ParseIsoDate(s)
    ELSE IF IsIsoDateTime(s) THEN ParseIsoDateTime(s)
    ELSE NaT

\* The texts that stand for a missing timestamp.
NatStrings == {<<"N", "a", "T">>, <<"n", "a", "n">>, <<>>}

\* General parsing of a column of texts.  The pandas releases differ: either
\* each text is parsed on its own ("each"), or the format of the first text
\* that stands for a value is guessed and, when there is a guess, the texts of
\* another format become NaT ("first").
ParseModes == {"each", "first"}

ToDatetimeGeneral(strs, mode) ==
    LET vals  == SelectSeq(strs, LAMBDA x : x \notin NatStrings)
        guess == IF mode = "first" /\ vals # <<>> THEN DateFormatOf(Head(vals)) ELSE ""
    IN  [i \in DOMAIN strs |->
            IF guess = "" \/ DateFormatOf(strs[i]) = guess THEN ParseDate(strs[i]) ELSE NaT]

\* pd.to_datetime(strs, format='%Y%m%d', errors='coerce')
ToDatetimeYmd(strs) == [i \in DOMAIN strs |-> ParseYmd(strs[i])]

\* A faulty variant: the 8-digit format is used when at least 80% of the texts match.
UsesYmdFormatAtLeast(sample) ==
    /\ sample # <<>>
    /\ 10 * Len(SelectSeq(sample, MatchesEightDigits)) >= 8 * Len(sample)

\* not date_sample.empty and date_sample.str.match(r'^\d{8}$').mean() > 0.8
UsesYmdFormat(sample) ==
    /\ sample # <<>>
    /\ 10 * Len(SelectSeq(sample, MatchesEightDigits)) > 8 * Len(sample)

\* df['date'].astype(str).str.strip()
DateTexts(col) == LET strs == AsTypeStr(col) IN [i \in DOMAIN col |-> Strip(strs[i])]

\* The date column: every cell is text after astype(str), so dropna() drops
\* nothing and date_sample is the whole column.
CastDate(col, mode) ==
    LET strs == DateTexts(col)
    IN  IF UsesYmdFormat(strs) THEN ToDatetimeYmd(strs) ELSE ToDatetimeGeneral(strs, mode)

\* dt.floor('min')
FloorMinute(t) == IF t = NaT THEN NaT ELSE t - (t % 60)

\* The datetime column: pd.to_datetime(errors='coerce') leaves a datetime64
\* column as it is and parses a column of objects, None being NaT; then
\* dt.floor('min').
CastDatetime(col, mode) ==
    LET parsed ==
            IF \A i \in DOMAIN col : col[i].kind = "ts"
            THEN [i \in DOMAIN col |-> col[i].num]
            ELSE ToDatetimeGeneral(
                    [i \in DOMAIN col |-> IF col[i].kind = "str" THEN col[i].str ELSE <<>>],
                    mode)
    IN  [i \in DOMAIN col |-> FloorMinute(parsed[i])]

\* A faulty variant: a text that is no number is left as it is (errors='ignore').
ToNumericIgnore(cell) ==
    CASE cell.kind = "num" -> cell.num
      [] cell.kind = "str" -> IF cell.str # <<>> /\ AllDigits(cell.str)
                              THEN ToNumber(cell.str) ELSE Len(cell.str)
      [] OTHER             -> NaN

\* pd.to_numeric(errors='coerce') of one cell
ToNumeric(cell) ==
    CASE cell.kind = "num" -> cell.num
      [] cell.kind = "str" -> IF cell.str # <<>> /\ AllDigits(cell.str)
                              THEN ToNumber(cell.str) ELSE NaN
      [] OTHER             -> NaN

cast_columns_types(d, mode) ==
    LET cols  == Range(d.columns)
        date  == IF "date" \in cols THEN CastDate(Column(d.rows, "date"), mode) ELSE <<>>
        dtime == IF "datetime" \in cols
                 THEN CastDatetime(Column(d.rows, "datetime"), mode) ELSE <<>>
    IN  [d EXCEPT !.rows = [i \in DOMAIN d.rows |->
            [c \in cols |->
                CASE c = "date"       -> TsCell(date[i])
                  [] c = "datetime"   -> TsCell(dtime[i])
                  [] c = "admissions" -> NumCell(ToNumeric(d.rows[i].admissions))
                  [] c = "hospital"   -> StrCell(ObjectToStr(d.rows[i].hospital))
                  [] OTHER            -> d.rows[i][c]]]]

\* Bound of the tables cast_columns_types is applied to.
MaxCastRows == 5

\* The raw texts of a date or datetime cell.
TextYmd == <<"2", "0", "2", "4", "0", "3", "2", "1">>
TextYmdPadded == <<" ", "2", "0", "2", "4", "0", "3", "2", "2", " ">>
TextYmdNoMonth == <<"2", "0", "2", "4", "1", "3", "2", "1">>
TextIsoDateTime == <<"2", "0", "2", "4", "-", "0", "3", "-", "2", "1", " ", "1", "0", ":", "3", "0", ":", "1", "5">>
TextJunk == <<"j", "u", "n", "k">>

\* The raw (time, admissions, hospital) cells of a row.
CastCells(tc) ==
    IF tc = "date"
    THEN { <<StrCell(TextYmd), StrCell(<<"1", "2">>), StrCell(<<"A">>)>>,
           <<StrCell(TextYmdPadded), NumCell(3), NumCell(7)>>,
           <<StrCell(TextYmdNoMonth), StrCell(<<"x">>), NoneCell>>,
           <<StrCell(TextIsoDateTime), NumCell(NaN), NumCell(NaN)>>,
           <<NoneCell, NoneCell, StrCell(<<"B">>)>> }
    ELSE { <<StrCell(TextIsoDateTime), StrCell(<<"1", "2">>), StrCell(<<"A">>)>>,
           <<StrCell(TextJunk), StrCell(<<"x">>), NoneCell>>,
           <<NoneCell, NumCell(NaN), StrCell(<<"B">>)>>,
           <<StrCell(TextYmd), NumCell(3), NumCell(7)>> }

CastRows(d) ==
    {[c \in Range(d.columns) |->
         CASE c = "admissions" -> x[2] [] c = "hospital" -> x[3] [] OTHER -> x[1]] :
        x \in CastCells(d.columns[1])}

InitCast ==
    /\ df \in {[columns |-> <<tc, "admissions", "hospital">>, rows |-> <<>>] :
                 tc \in {"date", "datetime"}}
    /\ out = EmptyFrame
    /\ pc = "load"

LoadCastRow ==
    /\ pc = "load"
    /\ Len(df.rows) < MaxCastRows
    /\ \E r \in CastRows(df) : df' = [df EXCEPT !.rows = Append(@, r)]
    /\ UNCHANGED <<out, pc>>

CastColumnsTypes ==
    /\ pc = "load"
    /\ \E mode \in ParseModes : out' = cast_columns_types(df, mode)
    /\ pc' = "cast"
    /\ UNCHANGED df

\* cast_columns_types applied to the table it returned
CastAgain ==
    /\ pc = "cast"
    /\ df' = out
    /\ \E mode \in ParseModes : out' = cast_columns_types(out, mode)
    /\ pc' = "recast"

NextCast == LoadCastRow \/ CastColumnsTypes \/ CastAgain

SpecCast == InitCast /\ [][NextCast]_vars

\* C9: cast_columns_types is idempotent: applied to its own result it returns
\* a table equal to that result (the same date / datetime values, missing ones
\* included, the same admissions, the same hospital text).
C9_CastIdempotent ==
    pc = "recast" => out = df

\* A normalised table holding a timestamp with a time of day and a missing
\* timestamp, a missing number and a hospital that was no text, was normalised
\* again.
C9_Witness ==
    /\ pc = "recast"
    /\ \E i, j \in DOMAIN df.rows :
          /\ df.rows[i][df.columns[1]].num # NaT
          /\ df.rows[i][df.columns[1]].num % SecondsPerDay # 0
          /\ df.rows[j][df.columns[1]].num = NaT
          /\ df.rows[j].admissions.num = NaN
          /\ df.rows[j].hospital.str = <<"N", "o", "n", "e">>
    /\ out.rows = df.rows

\* The date texts of the input and the number of them that match the 8-digit
\* pattern.
C10_Texts == DateTexts(Column(df.rows, "date"))
C10_Matches == Len(SelectSeq(C10_Texts, MatchesEightDigits))
C10_Dates == [i \in DOMAIN out.rows |-> out.rows[i].date.num]
C10_ParsedAsYmd == C10_Dates = ToDatetimeYmd(C10_Texts)
C10_ParsedGenerally == \E mode \in ParseModes : C10_Dates = ToDatetimeGeneral(C10_Texts, mode)

\* C10 as stated: cast_columns_types parses the date column with the fixed
\* YYYYMMDD format whenever at least 80% of the date texts match the 8-digit
\* pattern, also when exactly 80% match, and with general parsing otherwise.
C10_AtLeast80 ==
    (pc = "cast" /\ "date" \in Range(df.columns) /\ df.rows # <<>>) =>
        IF 100 * C10_Matches >= 80 * Len(C10_Texts)
        THEN C10_ParsedAsYmd ELSE C10_ParsedGenerally

\* C10 as amended: cast_columns_types parses the date column with the fixed
\* YYYYMMDD format whenever more than 80% of the date texts match the 8-digit
\* pattern, and with general parsing otherwise, also when exactly 80% match.
C10_MoreThan80 ==
    (pc = "cast" /\ "date" \in Range(df.columns) /\ df.rows # <<>>) =>
        IF 100 * C10_Matches > 80 * Len(C10_Texts)
        THEN C10_ParsedAsYmd ELSE C10_ParsedGenerally

\* Exactly 80% of the date texts matched and the one text in another format
\* was parsed (the fixed format would have made it NaT).
C10_Witness ==
    /\ pc = "cast"
    /\ "date" \in Range(df.columns)
    /\ Len(df.rows) = 5
    /\ C10_Matches = 4
    /\ \E i \in DOMAIN df.rows :
          /\ ~ MatchesEightDigits(C10_Texts[i])
          /\ out.rows[i].date.num # NaT

\* A text that is no date in any of the formats, once stripped.
C11_Unparseable(cell) == cell.kind = "str" /\ DateFormatOf(Strip(cell.str)) = ""

\* An admissions value that is no number.
C11_NonNumeric(cell) ==
    \/ cell.kind = "none"
    \/ cell.kind = "str" /\ ~ (cell.str # <<>> /\ AllDigits(cell.str))

\* C11: cast_columns_types returns a table for every table of raw cells: it has
\* the rows of the input (the row count is unchanged), every date / datetime
\* text that does not parse has become the missing timestamp, every admissions
\* value that is no number has become the missing number, and every hospital
\* value is text.
C11_NullOnMalformed ==
    pc = "cast" =>
        /\ out.columns = df.columns
        /\ Len(out.rows) = Len(df.rows)
        /\ \A i \in DOMAIN df.rows :
              LET tc == df.columns[1]
              IN  /\ out.rows[i][tc].kind = "ts"
                  /\ C11_Unparseable(df.rows[i][tc]) => out.rows[i][tc].num = NaT
                  /\ out.rows[i].admissions.kind = "num"
                  /\ C11_NonNumeric(df.rows[i].admissions) =>
                        out.rows[i].admissions.num = NaN
                  /\ out.rows[i].hospital.kind = "str"

\* A table was normalised that holds a timestamp text that does not parse, an
\* admissions text that is no number and a hospital that is no text, next to a
\* row that is well formed.
C11_Witness ==
    /\ pc = "cast"
    /\ \E i, j \in DOMAIN df.rows :
          /\ C11_Unparseable(df.rows[i][df.columns[1]])
          /\ df.rows[i].admissions = StrCell(<<"x">>)
          /\ df.rows[i].hospital = NoneCell
          /\ out.rows[i][df.columns[1]].num = NaT
          /\ out.rows[i].admissions.num = NaN
          /\ out.rows[i].hospital.str = <<"N", "o", "n", "e">>
          /\ out.rows[j][df.columns[1]].num # NaT
          /\ out.rows[j].admissions.num = 12

(***************************************************************************)
(* notebooks/utils/data_cleaning_utils.py: read_raw_data, read_large_file  *)
(*                                                                         *)
(* A raw file is a sequence of lines after its header of FileWidth names,  *)
(* each line a sequence of numbers.  df is the call: the format string,    *)
(* the large_file flag, the options (a sequence of <<key, value>> pairs)   *)
(* and the file.  out is what the call gave: the table read, or the        *)
(* exception raised with its message.                                      *)
(***************************************************************************)
FormatCsv == <<"c", "s", "v">>
FormatTxt == <<"t", "x", "t">>
FormatXls == <<"x", "l", "s">>
FormatXlsx == <<"x", "l", "s", "x">>

\* f"Formato no soportado: {format}" without the format
TextUnsupported == <<"F", "o", "r", "m", "a", "t", "o", " ", "n", "o", " ", "s", "o", "p", "o", "r", "t", "a", "d", "o">>

FileWidth == 2

Raised(kind, message) == [kind |-> kind, message |-> message, rows |-> <<>>]

Returned(rows) == [kind |-> "DataFrame", message |-> <<>>, rows |-> rows]

\* dict.get(key), "" when the key is not in the options
RECURSIVE OptionOf(_, _)
OptionOf(options, key) ==
    IF options = <<>> THEN ""
    ELSE IF Head(options)[1] = key THEN Head(options)[2]
    ELSE OptionOf(Tail(options), key)

\* The cell of column c of a line: a line shorter than the header is padded
\* with missing numbers.
FieldOf(line, c) == IF c <= Len(line) THEN line[c] ELSE NaN

\* pd.read_csv: a line with more fields than the header is a bad line, an
\* error unless on_bad_lines='skip'.
read_csv(file, on_bad_lines) ==
    LET good == SelectSeq(file, LAMBDA l : Len(l) <= FileWidth)
    IN  IF good # file /\ on_bad_lines # "skip"
        THEN Raised("ParserError", <<>>)
        ELSE Returned([i \in DOMAIN good |-> [c \in 1..FileWidth |-> FieldOf(good[i], c)]])

\* pd.read_excel: the sheet is as wide as its widest row.
read_excel(file) ==
    LET width == CHOOSE w \in FileWidth..(FileWidth + 1) :
                    /\ \A i \in DOMAIN file : Len(file[i]) <= w
                    /\ w > FileWidth => \E i \in DOMAIN file : Len(file[i]) = w
    IN  Returned([i \in DOMAIN file |-> [c \in 1..width |-> FieldOf(file[i], c)]])

\* The chunked reader passes on_bad_lines='skip' next to the options: an option
\* of that name is a repeated keyword argument.  pd.concat of the chunks holds
\* the rows of the file.
read_large_file(format, file, options) ==
    IF format \in {FormatCsv, FormatTxt}
    THEN IF OptionOf(options, "on_bad_lines") # ""
         THEN Raised("TypeError", <<>>)
         ELSE read_csv(file, "skip")
    ELSE Raised("ValueError", TextUnsupported)

read_raw_data(format, file, options, large_file) ==
    IF large_file THEN read_large_file(format, file, options)
    ELSE IF format \in {FormatCsv, FormatTxt}
         THEN read_csv(file, OptionOf(options, "on_bad_lines"))
    ELSE IF format \in {FormatXls, FormatXlsx} THEN read_excel(file)
    ELSE Raised("ValueError", TextUnsupported \o <<":", " ">> \o format)

\* Bound of the files read.
MaxFileLines == 3

\* The format strings of the calls: the four supported ones and three others.
ReadFormats ==
    { FormatCsv, FormatTxt, FormatXls, FormatXlsx,
      <<"j", "s", "o", "n">>, <<"C", "S", "V">>, <<"p", "a", "r", "q", "u", "e", "t">> }

ReadOptions == { <<>>, << <<"on_bad_lines", "skip">> >> }

\* A line of two fields, of one and of three.
FileLines == { <<1, 2>>, <<3>>, <<1, 2, 3>> }

InitRead ==
    /\ df \in [format : ReadFormats, large_file : BOOLEAN, options : ReadOptions,
               file : {<<>>}]
    /\ out = EmptyFrame
    /\ pc = "load"

LoadFileLine ==
    /\ pc = "load"
    /\ Len(df.file) < MaxFileLines
    /\ \E l \in FileLines : df' = [df EXCEPT !.file = Append(@, l)]
    /\ UNCHANGED <<out, pc>>

ReadRawData ==
    /\ pc = "load"
    /\ out' = read_raw_data(df.format, df.file, df.options, df.large_file)
    /\ pc' = "read"
    /\ UNCHANGED df

NextRead == LoadFileLine \/ ReadRawData

SpecRead == InitRead /\ [][NextRead]_vars

\* The text s is found in the text t.
C12_Contains(t, s) ==
    \E i \in 0..(Len(t) - Len(s)) : SubSeq(t, i + 1, i + Len(s)) = s

\* The format is not supported on the path the call takes.
C12_Unsupported ==
    IF df.large_file THEN df.format \notin {FormatCsv, FormatTxt}
    ELSE df.format \notin {FormatCsv, FormatTxt, FormatXls, FormatXlsx}

\* C12: reading raw data with an unsupported format string fails with a
\* ValueError whose message holds the format string, on the normal path
\* (format not csv, txt, xls, xlsx) and on the chunked large-file path (format
\* not csv, txt).
C12_ErrorNamesFormat ==
    (pc = "read" /\ C12_Unsupported) =>
        /\ out.kind = "ValueError"
        /\ C12_Contains(out.message, df.format)

(***************************************************************************)
(* save_clean_data, save_processed_df                                      *)
(*                                                                         *)
(* A checkpoint file is [exists, valid, rows]: whether there is a file at  *)
(* the path, whether it is a parquet file that can be read, and the rows   *)
(* it holds.  df is the table to save with the stage of the checkpoint,    *)
(* out the files and what the call gave.                                   *)
(***************************************************************************)
NoFile == [exists |-> FALSE, valid |-> FALSE, rows |-> <<>>]

FileOf(rows) == [exists |-> TRUE, valid |-> TRUE, rows |-> rows]

TruncatedFile == [exists |-> TRUE, valid |-> FALSE, rows |-> <<>>]

\* The ways DataFrame.to_parquet ends: it writes the file, it fails before the
\* file is opened (the old file stays), or it fails while writing (the file is
\* left truncated).
WriteFaults == {"none", "open", "write"}

\* A faulty variant: the rows are added to the rows of the file.
to_parquet_append(file, rows, fault) ==
    [file   |-> CASE fault = "none"  -> FileOf(file.rows \o rows)
                  [] fault = "write" -> TruncatedFile
                  [] OTHER           -> file,
     raised |-> IF fault = "none" THEN "" ELSE "Exception"]

\* df.to_parquet(ruta_salida, index=False): the whole file is overwritten.
to_parquet(file, rows, fault) ==
    [file   |-> CASE fault = "none"  -> FileOf(rows)
                  [] fault = "write" -> TruncatedFile
                  [] OTHER           -> file,
     raised |-> IF fault = "none" THEN "" ELSE "Exception"]

\* A faulty variant: the exception of the write is not caught.
save_clean_data_uncaught(file, rows, fault) ==
    LET w == to_parquet(file, rows, fault)
    IN  [file     |-> w.file,
         raised   |-> w.raised,
         returned |-> IF w.raised = "" THEN "None" ELSE "",
         printed  |-> IF w.raised = "" THEN "Archivo guardado exitosamente" ELSE ""]

\* try: df.to_parquet(...); print(...)  except Exception as e: print(...)
save_clean_data(file, rows, fault) ==
    LET w == to_parquet(file, rows, fault)
    IN  [file     |-> w.file,
         raised   |-> "",
         returned |-> "None",
         printed  |-> IF w.raised = "" THEN "Archivo guardado exitosamente"
                      ELSE "Error al guardar el archivo"]

save_processed_df(file, rows, fault) ==
    LET w == to_parquet(file, rows, fault)
    IN  [file     |-> w.file,
         raised   |-> "",
         returned |-> "None",
         printed  |-> IF w.raised = "" THEN "Archivo guardado exitosamente"
                      ELSE "Error al guardar el archivo"]

\* Bound of the tables saved.
MaxSaveRows == 2

\* The rows of a checkpoint: (timestamp, admissions, hospital).
CheckpointColumns == <<"datetime", "admissions", "hospital">>

CheckpointRow(t, a, h) == [datetime |-> t, admissions |-> a, hospital |-> h]

CheckpointDay == Date(3, 21)

CheckpointRows ==
    {CheckpointRow(t, a, h) :
        t \in {CheckpointDay, CheckpointDay + 3600}, a \in {1, 2}, h \in {"A"}}

InitSave ==
    /\ df \in [stage : {"clean", "processed"}, rows : {<<>>}]
    /\ out \in [file : {NoFile, FileOf(<<CheckpointRow(CheckpointDay, 1, "B")>>)},
                raised : {""}, returned : {""}, printed : {""}]
    /\ pc = "load"

LoadSaveRow ==
    /\ pc = "load"
    /\ Len(df.rows) < MaxSaveRows
    /\ \E r \in CheckpointRows : df' = [df EXCEPT !.rows = Append(@, r)]
    /\ UNCHANGED <<out, pc>>

\* The call of the save function of the stage; the run goes on when the call
\* returns and halts when it raises.
SaveData ==
    /\ pc = "load"
    /\ \E fault \in WriteFaults :
          out' = IF df.stage = "clean" THEN save_clean_data(out.file, df.rows, fault)
                 ELSE save_processed_df(out.file, df.rows, fault)
    /\ pc' = IF out'.raised = "" THEN "saved" ELSE "halted"
    /\ UNCHANGED df

NextSave == LoadSaveRow \/ SaveData

SpecSave == InitSave /\ [][NextSave]_vars

\* C13: whatever way the checkpoint write ends, save_clean_data and
\* save_processed_df return None without raising and the run goes on: what the
\* caller gets is the same when the file holds the table and when it does not.
C13_FailureSwallowed ==
    pc \notin {"load"} =>
        /\ pc = "saved"
        /\ out.raised = ""
        /\ out.returned = "None"

\* A save returned after its write had failed: the file does not hold the
\* table, and the caller got what a successful save returns.
C13_Witness ==
    /\ pc = "saved"
    /\ out.printed = "Error al guardar el archivo"
    /\ out.file # FileOf(df.rows)
    /\ df.rows # <<>>
    /\ out.returned = "None"

(***************************************************************************)
(* The ingestion adapters process_cardiff, process_pak_, process_usa_,     *)
(* process_nl_, process_bwa_                                               *)
(*                                                                         *)
(* df is the raw table with the name of the adapter it is given to, out    *)
(* the table the adapter returns.  A raw date is the number YYYYMMDD, a    *)
(* country a text.                                                         *)
(***************************************************************************)
\* str.contains(s, na=False) of a text t
StrContains(t, s) ==
    \E i \in 0..(Len(t) - Len(s)) : SubSeq(t, i + 1, i + Len(s)) = s

\* df.rename(columns=names): names is a sequence of <<old, new>> pairs.
RenameColumn(c, names) ==
    IF \E i \in DOMAIN names : names[i][1] = c
    THEN names[CHOOSE i \in DOMAIN names : names[i][1] = c][2]
    ELSE c

Rename(d, names) ==
    [columns |-> [i \in DOMAIN d.columns |-> RenameColumn(d.columns[i], names)],
     rows    |-> [i \in DOMAIN d.rows |->
                    [c \in {RenameColumn(x, names) : x \in Range(d.columns)} |->
                        d.rows[i][CHOOSE x \in Range(d.columns) :
                                     RenameColumn(x, names) = c]]]]

\* df[columns]
Select(d, columns) ==
    [columns |-> columns,
     rows    |-> [i \in DOMAIN d.rows |-> [c \in Range(columns) |-> d.rows[i][c]]]]

\* df[name] = value: a new column comes last, a column there is is overwritten.
Assign(d, name, value) ==
    [columns |-> IF name \in Range(d.columns) THEN d.columns ELSE Append(d.columns, name),
     rows    |-> [i \in DOMAIN d.rows |->
                    [c \in Range(d.columns) \cup {name} |->
                        IF c = name THEN value ELSE d.rows[i][c]]]]

process_cardiff(d) ==
    Assign(Rename(d, << <<"arrival_1h", "datetime">>, <<"n_attendance", "admissions">> >>),
           "hospital", "Cardiff Hospital")

\* The keys of df.groupby(['date', 'hospital']) in their sorted order.
DateHospitalLess(a, b) ==
    \/ a[1] < b[1]
    \/ a[1] = b[1] /\ TextRank(a[2]) < TextRank(b[2])

RECURSIVE SortDateHospital(_)
SortDateHospital(S) ==
    IF S = {} THEN <<>>
    ELSE LET m == CHOOSE x \in S : \A y \in S \ {x} : DateHospitalLess(x, y)
         IN  <<m>> \o SortDateHospital(S \ {m})

\* df.groupby(['date', 'hospital'])['attendences'].sum().reset_index(): the
\* table grouped is df, with the rows of every country.
GroupAttendences(d, code) ==
    LET keys == SortDateHospital({<<d.rows[i].date, d.rows[i].hospital>> : i \in DOMAIN d.rows})
    IN  [columns |-> <<"date", "hospital", "attendences">>,
         rows    |-> [i \in DOMAIN keys |->
                        [date |-> keys[i][1], hospital |-> keys[i][2],
                         attendences |-> SeriesSum(Column(SelectSeq(d.rows,
                             LAMBDA r : r.date = keys[i][1] /\ r.hospital = keys[i][2]),
                             "attendences"))]]]

\* pd.to_datetime(df_filtrado['date'], format='%Y%m%d') raises on a date of the
\* country's rows that is no date (errors='raise').
CountryDatesRaise(d, code) ==
    \E i \in DOMAIN d.rows :
        /\ StrContains(d.rows[i].country, code)
        /\ ParseYmd(NumberToStr(d.rows[i].date)) = NaT

\* df_final of the country adapters
CountryFinal(d, code) ==
    Rename(GroupAttendences(d, code), << <<"attendences", "admissions">> >>)

\* df_ordenado of the country adapters
CountryOrdered(d, code) ==
    Select(CountryFinal(d, code), <<"date", "admissions", "hospital">>)

CodePak == <<"p", "a", "k">>
CodeUsa == <<"u", "s", "a">>
CodeNl == <<"n", "l">>
CodeBot == <<"b", "o", "t">>
CodeAus == <<"a", "u", "s">>

\* process_pak_, process_nl_ and process_bwa_ return df_final, process_usa_
\* returns df_ordenado.
process_pak_(d) == CountryFinal(d, CodePak)

process_usa_(d) == CountryOrdered(d, CodeUsa)

process_nl_(d) == CountryFinal(d, CodeNl)

process_bwa_(d) == CountryFinal(d, CodeBot)

\* The country code of an adapter.
CountryCode(adapter) ==
    CASE adapter = "process_pak_" -> CodePak
      [] adapter = "process_usa_" -> CodeUsa
      [] adapter = "process_nl_"  -> CodeNl
      [] adapter = "process_bwa_" -> CodeBot
      [] OTHER                    -> CodeAus

CountryAdapters == {"process_pak_", "process_usa_", "process_nl_", "process_bwa_"}

\* Bound of the raw tables given to an adapter.
MaxAdapterRows == 2

\* The columns of the raw tables: those the adapter reads, alone and followed
\* by one more.
AdapterColumns(adapter) ==
    LET read == IF adapter = "process_cardiff" THEN <<"arrival_1h", "n_attendance">>
                ELSE <<"country", "date", "hospital", "attendences">>
    IN  {read, Append(read, "site")}

AdapterDay == 20240321
AdapterNoDay == 20241321

AdapterRows(adapter, columns) ==
    IF adapter = "process_cardiff"
    THEN {[c \in Range(columns) |->
             CASE c = "arrival_1h" -> t [] c = "n_attendance" -> a [] OTHER -> 0] :
            t \in {CheckpointDay, CheckpointDay + 3600}, a \in {1, 2}}
    ELSE {[c \in Range(columns) |->
             CASE c = "country" -> k
               [] c = "date" -> t
               [] c = "hospital" -> "A"
               [] c = "attendences" -> a
               [] OTHER -> 0] :
            k \in {CodePak, CodeUsa, CodeNl, CodeBot, <<>>},
            t \in {AdapterDay, AdapterNoDay}, a \in {1, 2}}

InitAdapter ==
    /\ df \in UNION {[adapter : {n}, columns : AdapterColumns(n), rows : {<<>>}] :
                        n \in CountryAdapters \cup {"process_cardiff"}}
    /\ out = EmptyFrame
    /\ pc = "load"

LoadAdapterRow ==
    /\ pc = "load"
    /\ Len(df.rows) < MaxAdapterRows
    /\ \E r \in AdapterRows(df.adapter, df.columns) : df' = [df EXCEPT !.rows = Append(@, r)]
    /\ UNCHANGED <<out, pc>>

ProcessCardiff ==
    /\ pc = "load"
    /\ df.adapter = "process_cardiff"
    /\ out' = process_cardiff(df)
    /\ pc' = "processed"
    /\ UNCHANGED df

ProcessCountry ==
    /\ pc = "load"
    /\ df.adapter \in CountryAdapters
    /\ IF CountryDatesRaise(df, CountryCode(df.adapter))
       THEN /\ pc' = "ValueError"
            /\ UNCHANGED <<df, out>>
       ELSE /\ out' = CASE df.adapter = "process_pak_" -> process_pak_(df)
                        [] df.adapter = "process_usa_" -> process_usa_(df)
                        [] df.adapter = "process_nl_"  -> process_nl_(df)
                        [] OTHER                       -> process_bwa_(df)
            /\ pc' = "processed"
            /\ UNCHANGED df

NextAdapter == LoadAdapterRow \/ ProcessCardiff \/ ProcessCountry

SpecAdapter == InitAdapter /\ [][NextAdapter]_vars

\* C14: every adapter returns a table of exactly three columns in the order
\* (date or datetime, admissions, hospital), whatever columns the raw table
\* has beyond those the adapter reads.
C14_ThreeColumns ==
    pc = "processed" =>
        out.columns \in {<<"date", "admissions", "hospital">>,
                         <<"datetime", "admissions", "hospital">>}

(***************************************************************************)
(* The adapters that merge into a checkpoint: generic_mexico_append,       *)
(* process_esp_castilla_y_leon, process_aus_                               *)
(*                                                                         *)
(* df is the adapter with the raw batch it is given and the number of      *)
(* batches merged before; out is the checkpoint file, the file before the  *)
(* last merge and the aggregated batch of the last merge.                  *)
(***************************************************************************)
MergeAdapters == {"generic_mexico_append", "process_esp_castilla_y_leon", "process_aus_"}

\* The time column of the checkpoint of an adapter.
MergeTimeColumn(adapter) == IF adapter = "generic_mexico_append" THEN "datetime" ELSE "date"

MergeRow(adapter, t, a, h) ==
    [c \in {MergeTimeColumn(adapter), "admissions", "hospital"} |->
        CASE c = "admissions" -> a [] c = "hospital" -> h [] OTHER -> t]

\* A faulty variant: no row is dropped.
DropDuplicatesNone(rows) == rows

\* A faulty variant: rows are duplicates when they agree on hospital and time.
DropDuplicatesByPair(rows) ==
    LET same(a, b) == \A c \in (DOMAIN a) \ {"admissions"} : a[c] = b[c]
        keep == {i \in DOMAIN rows : \A j \in 1..(i - 1) : ~ same(rows[j], rows[i])}
        F[i \in 0..Len(rows)] ==
            IF i = 0 THEN <<>> ELSE IF i \in keep THEN Append(F[i - 1], rows[i]) ELSE F[i - 1]
    IN  F[Len(rows)]

\* DataFrame.drop_duplicates(): of the rows equal in every column the first
\* stays.
DropDuplicates(rows) ==
    LET keep == {i \in DOMAIN rows : \A j \in 1..(i - 1) : rows[j] # rows[i]}
        F[i \in 0..Len(rows)] ==
            IF i = 0 THEN <<>> ELSE IF i \in keep THEN Append(F[i - 1], rows[i]) ELSE F[i - 1]
    IN  F[Len(rows)]

\* groupby(['hospital', 'datetime']).size().reset_index(name='admissions') of
\* the columns FECHAINGRESO and CLUES, then [['datetime', 'admissions',
\* 'hospital']]: a row with a missing key is in no group.
MexicoBatch(rows) ==
    LET valid == SelectSeq(rows, LAMBDA r : r.FECHAINGRESO # NaT)
        keys  == SortKeys({<<valid[i].CLUES, valid[i].FECHAINGRESO>> : i \in DOMAIN valid})
    IN  [i \in DOMAIN keys |->
            MergeRow("generic_mexico_append", keys[i][2],
                     Cardinality({j \in DOMAIN valid :
                        <<valid[j].CLUES, valid[j].FECHAINGRESO>> = keys[i]}),
                     keys[i][1])]

\* groupby(['Fecha de atencion', 'Hospital']).size().reset_index(name='admissions')
CastillaBatch(rows) ==
    LET valid == SelectSeq(rows, LAMBDA r : r.Fecha # NaT)
        keys  == SortDateHospital({<<valid[i].Fecha, valid[i].Hospital>> : i \in DOMAIN valid})
    IN  [i \in DOMAIN keys |->
            MergeRow("process_esp_castilla_y_leon", keys[i][1],
                     Cardinality({j \in DOMAIN valid :
                        <<valid[j].Fecha, valid[j].Hospital>> = keys[i]}),
                     keys[i][2])]

\* df_ordenado of process_aus_
AusBatch(rows) ==
    CountryOrdered([columns |-> <<"country", "date", "hospital", "attendences">>,
                    rows |-> rows], CodeAus).rows

\* pd.concat([df_target, df_ordenado], ignore_index=True).drop_duplicates(),
\* df_target being the rows pd.read_parquet gives.
generic_mexico_append(rows, target) == DropDuplicates(target.rows \o MexicoBatch(rows))

process_esp_castilla_y_leon(rows, target) == DropDuplicates(target.rows \o CastillaBatch(rows))

process_aus_(rows, target) == DropDuplicates(target.rows \o AusBatch(rows))

\* The aggregated batch and the table returned by an adapter.
BatchOf(adapter, rows) ==
    CASE adapter = "generic_mexico_append"       -> MexicoBatch(rows)
      [] adapter = "process_esp_castilla_y_leon" -> CastillaBatch(rows)
      [] OTHER                                   -> AusBatch(rows)

MergeOf(adapter, rows, target) ==
    CASE adapter = "generic_mexico_append"       -> generic_mexico_append(rows, target)
      [] adapter = "process_esp_castilla_y_leon" -> process_esp_castilla_y_leon(rows, target)
      [] OTHER                                   -> process_aus_(rows, target)

\* The exception of the adapter, "" when it returns: pd.read_parquet on a file
\* that is not there or cannot be read, pd.to_datetime on a date that is none.
MergeRaises(adapter, rows, target) ==
    IF adapter = "process_aus_"
          /\ CountryDatesRaise([columns |-> <<>>, rows |-> rows], CodeAus)
    THEN "ValueError"
    ELSE IF ~ target.exists THEN "FileNotFoundError"
    ELSE IF ~ target.valid THEN "ArrowInvalid"
    ELSE ""

\* The caller saves the table the adapter returned as the checkpoint the
\* adapter read; the write is one that succeeds.
SaveCheckpoint(file, rows) == save_clean_data(file, rows, "none").file

\* Bounds of the raw batches and of the number of batches merged.
MaxBatchRows == 2
MaxMerges == 2

\* The raw rows of a batch.
BatchRows(adapter) ==
    CASE adapter = "generic_mexico_append" ->
            {[FECHAINGRESO |-> t, CLUES |-> h] :
                t \in {NaT, CheckpointDay}, h \in HospitalSet}
      [] adapter = "process_esp_castilla_y_leon" ->
            {[Fecha |-> t, Hospital |-> h] :
                t \in {NaT, CheckpointDay}, h \in HospitalSet}
      [] OTHER ->
            {[country |-> k, date |-> t, hospital |-> "A", attendences |-> a] :
                k \in {CodeAus, CodeUsa}, t \in {AdapterDay, AdapterNoDay}, a \in {1}}

\* The checkpoints of the first run: none, an empty one, one of one row.
FirstCheckpoints(adapter) ==
    { NoFile, FileOf(<<>>),
      FileOf(<<MergeRow(adapter,
                        IF adapter = "process_aus_" THEN AdapterDay ELSE CheckpointDay,
                        1, "A")>>) }

InitMerge ==
    /\ df \in [adapter : MergeAdapters, rows : {<<>>}, merges : {0}]
    /\ out \in [file : FirstCheckpoints(df.adapter), before : {NoFile}, batch : {<<>>}]
    /\ pc = "load"

LoadBatchRow ==
    /\ pc = "load"
    /\ Len(df.rows) < MaxBatchRows
    /\ \E r \in BatchRows(df.adapter) : df' = [df EXCEPT !.rows = Append(@, r)]
    /\ UNCHANGED <<out, pc>>

\* The adapter is given the batch and the table it returns is saved.
MergeSteps(next) ==
    LET raises == MergeRaises(df.adapter, df.rows, out.file)
    IN  IF raises # ""
        THEN /\ pc' = raises
             /\ UNCHANGED <<df, out>>
        ELSE /\ out' = [file   |-> SaveCheckpoint(out.file,
                                       MergeOf(df.adapter, df.rows, out.file)),
                        before |-> out.file,
                        batch  |-> BatchOf(df.adapter, df.rows)]
             /\ pc' = next
             /\ UNCHANGED df

MergeBatch ==
    /\ pc = "load"
    /\ MergeSteps("merged")

\* The batch that was merged is merged once more.
MergeAgain ==
    /\ pc = "merged"
    /\ MergeSteps("remerged")

NextBatch ==
    /\ pc \in {"merged", "remerged"}
    /\ df.merges + 1 < MaxMerges
    /\ df' = [df EXCEPT !.rows = <<>>, !.merges = @ + 1]
    /\ pc' = "load"
    /\ UNCHANGED out

NextMerge == LoadBatchRow \/ MergeBatch \/ MergeAgain \/ NextBatch

SpecMerge == InitMerge /\ [][NextMerge]_vars

C19_OneRowPerPair ==
    LET tc == MergeTimeColumn(df.adapter)
    IN  \A i, j \in DOMAIN out.file.rows :
            (/\ out.file.rows[i].hospital = out.file.rows[j].hospital
             /\ out.file.rows[i][tc] = out.file.rows[j][tc]) => i = j

\* C19 as amended: after any sequence of merges the checkpoint holds at most
\* one row for a (hospital, timestamp, admissions) triple: no two of its rows
\* are equal in every column.
C19_OneRowPerTriple ==
    (pc \in {"merged", "remerged"} \/ df.merges > 0) =>
        \A i, j \in DOMAIN out.file.rows : out.file.rows[i] = out.file.rows[j] => i = j

\* Two batches held the same (hospital, timestamp) pair with different
\* admissions counts and the same pair with the same count: the checkpoint
\* holds the pair twice, once for each count.
C19_Witness ==
    /\ pc = "merged"
    /\ df.merges = 1
    /\ out.batch # <<>>
    /\ Range(out.batch) \cap Range(out.before.rows) # {}
    /\ \E i, j \in DOMAIN out.file.rows :
          /\ i < j
          /\ out.file.rows[i].hospital = out.file.rows[j].hospital
          /\ out.file.rows[i][MergeTimeColumn(df.adapter)]
                = out.file.rows[j][MergeTimeColumn(df.adapter)]
          /\ out.file.rows[i].admissions # out.file.rows[j].admissions
          /\ out.file.rows[j] \in Range(out.batch)

(***************************************************************************)
(* Two runs on one checkpoint                                              *)
(*                                                                         *)
(* Each run is given a raw batch, calls generic_mexico_append, which reads *)
(* the checkpoint, and then saves the table returned.  No step takes a     *)
(* lock.  df holds, for each run, its batch, the checkpoint it read and    *)
(* the table it was returned; out is the checkpoint file; pc the position  *)
(* of each run.                                                            *)
(***************************************************************************)
Runs == {1, 2}

\* Bound of the raw batch of a run.
MaxRunRows == 1

InitRace ==
    /\ df = [r \in Runs |-> [rows |-> <<>>, target |-> NoFile, final |-> <<>>]]
    /\ out \in FirstCheckpoints("generic_mexico_append")
    /\ pc = [r \in Runs |-> "load"]

LoadRunRow(r) ==
    /\ pc[r] = "load"
    /\ Len(df[r].rows) < MaxRunRows
    /\ \E x \in BatchRows("generic_mexico_append") :
          df' = [df EXCEPT ![r].rows = Append(@, x)]
    /\ UNCHANGED <<out, pc>>

\* generic_mexico_append: the run reads the checkpoint and merges its batch.
RunAppend(r) ==
    /\ pc[r] = "load"
    /\ LET raises == MergeRaises("generic_mexico_append", df[r].rows, out)
       IN  IF raises # ""
           THEN /\ pc' = [pc EXCEPT ![r] = raises]
                /\ UNCHANGED df
           ELSE /\ df' = [df EXCEPT ![r].target = out,
                                    ![r].final = generic_mexico_append(df[r].rows, out)]
                /\ pc' = [pc EXCEPT ![r] = "read"]
    /\ UNCHANGED out

\* The run saves the table it was returned.
RunSave(r) ==
    /\ pc[r] = "read"
    /\ out' = SaveCheckpoint(out, df[r].final)
    /\ pc' = [pc EXCEPT ![r] = "saved"]
    /\ UNCHANGED df

NextRace == \E r \in Runs : LoadRunRow(r) \/ RunAppend(r) \/ RunSave(r)

SpecRace == InitRace /\ [][NextRace]_vars

\* C15: the checkpoint update is a read-modify-write without a lock: when the
\* two runs have read the same checkpoint and both have saved, the checkpoint
\* is the table of one run alone, and a row that only the batch of the other
\* run contributed is not in it.
C15_LostUpdate ==
    (pc = [r \in Runs |-> "saved"] /\ df[1].target = df[2].target) =>
        \E r \in Runs :
            LET o == 3 - r
            IN  /\ out.rows = df[r].final
                /\ \A x \in Range(MexicoBatch(df[o].rows)) :
                      x \notin Range(df[r].final) => x \notin Range(out.rows)

\* Both runs read the checkpoint before either saved, and both have saved: the
\* checkpoint holds the row of the batch of run 2 and lacks the row of the
\* batch of run 1.
C15_Witness ==
    /\ pc = [r \in Runs |-> "saved"]
    /\ df[1].target = df[2].target
    /\ MexicoBatch(df[2].rows) # <<>>
    /\ Range(MexicoBatch(df[2].rows)) \subseteq Range(out.rows)
    /\ \E x \in Range(MexicoBatch(df[1].rows)) : x \notin Range(out.rows)

(***************************************************************************)
(* fill_missing_values on tables in any row order                          *)
(***************************************************************************)
\* Bound of the tables in any row order.
MaxUnorderedRows == 3

\* A row of any of three days, for a (hospital, date) pair the table does not
\* hold yet: the table has one row per pair, in any order.
UnorderedRows(d) ==
    {r \in [date : {Date(1, k) : k \in 1..3}, admissions : {NaN, 5, 10},
            hospital : HospitalSet] :
        \A i \in DOMAIN d.rows :
            <<d.rows[i].hospital, d.rows[i].date>> # <<r.hospital, r.date>>}

LoadUnorderedRow ==
    /\ pc = "load"
    /\ Len(df.rows) < MaxUnorderedRows
    /\ \E r \in UnorderedRows(df) : df' = [df EXCEPT !.rows = Append(@, r)]
    /\ UNCHANGED <<out, pc>>

NextFillOrder == LoadUnorderedRow \/ FillMissingValues

SpecFillOrder == InitFill /\ [][NextFillOrder]_vars

\* C16: the forward fill follows the time order of each hospital, whatever the
\* row order of the table: a missing admissions value becomes the valid value
\* of the same hospital with the latest earlier timestamp, and stays missing
\* when the hospital has no valid value at an earlier timestamp.
C16_FillInTimeOrder ==
    pc = "filled" =>
        \A i \in DOMAIN df.rows :
            LET earlier == {j \in DOMAIN df.rows :
                               /\ df.rows[j].hospital = df.rows[i].hospital
                               /\ df.rows[j].date < df.rows[i].date
                               /\ df.rows[j].admissions # NaN}
                latest  == CHOOSE j \in earlier :
                               \A k \in earlier : df.rows[k].date <= df.rows[j].date
            IN  df.rows[i].admissions = NaN =>
                    out.rows[i].admissions =
                        IF earlier = {} THEN NaN ELSE df.rows[latest].admissions

(***************************************************************************)
(* aggregate_data on two tables that differ in the rows of one hospital    *)
(*                                                                         *)
(* df holds the two tables, out the table aggregate_data returns for each. *)
(***************************************************************************)
\* The lengths of the series of the first hospital.
PairSeriesRows == {0, 8, 15, MaxSeriesRows}

\* The rows of the second hospital: m rows as they are in SeriesTables, or m
\* rows with other admissions, on other days and in descending order of time.
OtherKinds == {"base", "changed"}

OtherRows(tc, m, p, v) ==
    IF v = "base" THEN SeriesRows(Hospitals[2], tc, m, p)
    ELSE [k \in 1..m |->
            [c \in {"hospital", tc, "admissions"} |->
                CASE c = "hospital"   -> Hospitals[2]
                  [] c = "admissions" -> 90 - k
                  [] OTHER            -> SeriesStart + (m + 3 - k) * SecondsPerDay]]

PairTable(tc, n, p, o, x, m, v) ==
    [columns |-> <<tc, "admissions", "hospital">>,
     rows    |-> ExtraRows(tc, x)
                 \o Interleave(Unindexed(SeriesRows(Hospitals[1], tc, n, p), o),
                               OtherRows(tc, m, p, v))]

\* Two tables with the same rows of the first hospital and different rows of
\* the second.
InitPair ==
    /\ df \in {[first  |-> PairTable(tc, n, p, o, x, m[1], v[1]),
                second |-> PairTable(tc, n, p, o, x, m[2], v[2])] :
                 tc \in {"date", "datetime"}, n \in PairSeriesRows, p \in SeriesPatterns,
                 o \in TableOrders, x \in ExtraKinds,
                 m \in {y \in (0..MaxOtherRows) \X (0..MaxOtherRows) : y[1] <= y[2]},
                 v \in {y \in OtherKinds \X OtherKinds : y[1] # y[2]}}
    /\ out = [first |-> EmptyFrame, second |-> EmptyFrame]
    /\ pc = "load"

\* The order in which a sort leaves rows of equal keys depends on the rows
\* sorted only, which are those of one hospital: the two calls leave the rows
\* of the first hospital in the same order.
AggregatePair ==
    /\ pc = "load"
    /\ \E tie \in TieOrders :
          out' = [first  |-> aggregate_data(df.first, tie),
                  second |-> aggregate_data(df.second, tie)]
    /\ pc' = "aggregated"
    /\ UNCHANGED df

NextPair == AggregatePair

SpecPair == InitPair /\ [][NextPair]_vars

\* The rows of hospital h of a table, in table order.
C17_RowsOf(d, h) == SelectSeq(d.rows, LAMBDA r : r.hospital = h)

\* The rows of a table are in ascending order of (hospital, timestamp), a
\* missing timestamp being last in its hospital.
C17_Sorted(d, tc) ==
    \A i, j \in DOMAIN d.rows :
        i < j =>
            \/ TextRank(d.rows[i].hospital) < TextRank(d.rows[j].hospital)
            \/ /\ d.rows[i].hospital = d.rows[j].hospital
               /\ \/ d.rows[j][tc] = NaT
                  \/ d.rows[i][tc] # NaT /\ d.rows[i][tc] <= d.rows[j][tc]

\* C17: the lag and rolling columns of aggregate_data are per hospital: two
\* tables that differ only in the rows of one hospital (rows changed, added or
\* removed) give the rows of the other hospital the same lag_7, lag_14,
\* rolling_7 and rolling_14, and the output is in ascending order of
\* (hospital, timestamp).
C17_PerHospital ==
    pc = "aggregated" =>
        /\ C17_RowsOf(out.first, Hospitals[1]) = C17_RowsOf(out.second, Hospitals[1])
        /\ C17_Sorted(out.first, time_col(df.first))
        /\ C17_Sorted(out.second, time_col(df.second))

\* Two tables not in time order were aggregated, the second with more and
\* other rows of the second hospital: the rows of the first hospital, among
\* them one with a lag_14 and a rolling_14, are the same in both outputs.
C17_Witness ==
    /\ pc = "aggregated"
    /\ Len(C17_RowsOf(df.first, Hospitals[2])) = 1
    /\ Len(C17_RowsOf(df.second, Hospitals[2])) = 2
    /\ C17_RowsOf(df.first, Hospitals[2])[1].admissions
          # C17_RowsOf(df.second, Hospitals[2])[1].admissions
    /\ ~ C17_Sorted(df.first, time_col(df.first))
    /\ \E i \in DOMAIN out.second.rows :
          /\ out.second.rows[i].hospital = Hospitals[1]
          /\ out.second.rows[i].lag_14 # NaN
          /\ out.second.rows[i].rolling_14 # NaNMean
          /\ out.second.rows[i] \in Range(out.first.rows)

\* The input rows of the adapter's country with the date and hospital of an
\* output row.
C20_CountryRows(r) ==
    SelectSeq(df.rows, LAMBDA x :
        /\ StrContains(x.country, CountryCode(df.adapter))
        /\ x.date = r.date
        /\ x.hospital = r.hospital)

\* C20: a country adapter aggregates only the input rows whose country holds
\* the adapter's country code: the admissions of every output row are the sum
\* of the attendences of such rows, of which there is at least one.
C20_OnlyCountryRows ==
    (pc = "processed" /\ df.adapter \in CountryAdapters) =>
        \A i \in DOMAIN out.rows :
            /\ C20_CountryRows(out.rows[i]) # <<>>
            /\ out.rows[i].admissions
                  = SeriesSum(Column(C20_CountryRows(out.rows[i]), "attendences"))

(***************************************************************************)
(* remove_outliers of a table with few or equal values                     *)
(***************************************************************************)
\* C21 as stated: of a table with at least one non-null admissions value,
\* a table of exactly one row and a table whose values are all equal
\* included, remove_outliers returns at least one row.
C21_KeepsARow ==
    (pc = "filtered" /\ Valid(Column(df.rows, "admissions")) # <<>>)
        => out.rows # <<>>

(***************************************************************************)
(* group_data of a group without a value                                   *)
(***************************************************************************)
\* The rows of the (hospital, timestamp) group of output row r.
C23_Group(r) ==
    SelectSeq(df.rows, LAMBDA q :
        q.hospital = r.hospital /\ q[time_col(df)] = r[time_col(df)])

\* C23 as stated: a (hospital, timestamp) group whose input admissions are
\* all null yields an output row with null admissions, not 0.
C23_NullGroupStaysNull ==
    pc = "grouped" =>
        \A i \in DOMAIN out.rows :
            Valid(Column(C23_Group(out.rows[i]), "admissions")) = <<>>
                => out.rows[i].admissions = NaN

(***************************************************************************)
(* process_data                                                            *)
(*                                                                         *)
(* Each row carries its index label in the field index.  The assignment    *)
(* of fill_missing_values and the selection of remove_outliers leave the   *)
(* labels of the rows as they are; reset_index(drop=True) replaces them by *)
(* 0, 1, ..., n - 1.                                                       *)
(***************************************************************************)
\* DataFrame.reset_index(drop=True)
reset_index(d) ==
    [d EXCEPT !.rows = [i \in DOMAIN d.rows |-> [d.rows[i] EXCEPT !.index = i - 1]]]

\* A faulty variant: the index is not renumbered.
process_data_unreset(d) ==
    remove_outliers(fill_missing_values(d), "admissions")

process_data(d) ==
    reset_index(remove_outliers(fill_missing_values(d), "admissions"))

\* Bounds of the tables process_data is applied to.
MaxProcessRows == 7

ProcessValues == {1, 100}

ProcessColumns == <<"date", "admissions", "hospital">>

\* The rows arrive one per day, labelled 0, 1, 2, ... (a RangeIndex); the
\* first hospital reports any value or none, the others the least value.
ProcessRows(d) ==
    {r \in {[date |-> Date(1, 1) + Len(d.rows) * SecondsPerDay, admissions |-> a,
             hospital |-> h, index |-> Len(d.rows)] :
                h \in HospitalSet, a \in {NaN} \cup ProcessValues} :
        r.hospital # Hospitals[1] => r.admissions = 1}

InitProcess ==
    /\ df = [columns |-> ProcessColumns, rows |-> <<>>]
    /\ out = EmptyFrame
    /\ pc = "load"

LoadProcessRow ==
    /\ pc = "load"
    /\ Len(df.rows) < MaxProcessRows
    /\ \E r \in ProcessRows(df) : df' = [df EXCEPT !.rows = Append(@, r)]
    /\ UNCHANGED <<out, pc>>

\* process_data(df): fill_missing_values assigns the filled column to the
\* caller's table, so df holds the filled values afterwards.
ProcessData ==
    /\ pc = "load"
    /\ df' = fill_missing_values(df)
    /\ out' = process_data(df)
    /\ pc' = "processed"

NextProcess == LoadProcessRow \/ ProcessData

SpecProcess == InitProcess /\ [][NextProcess]_vars

\* C22: the output of process_data holds no row with a null admissions value
\* (a leading null, which the fill leaves null, is removed with the outliers)
\* and its index is 0, 1, ..., n - 1 without gaps.
C22_NoNullRangeIndex ==
    pc = "processed" =>
        \A i \in DOMAIN out.rows :
            /\ out.rows[i].admissions # NaN
            /\ out.rows[i].index = i - 1

\* After the fill the first row was still null; that row and an outlier
\* further down were removed, and the rows that remain are labelled anew.
C22_Witness ==
    /\ pc = "processed"
    /\ df.rows # <<>>
    /\ df.rows[1].admissions = NaN
    /\ out.rows # <<>>
    /\ \E i \in 2..(Len(df.rows) - 1) :
          /\ df.rows[i].admissions # NaN
          /\ \A k \in DOMAIN out.rows : out.rows[k].date # df.rows[i].date
    /\ out.rows[Len(out.rows)].date = df.rows[Len(df.rows)].date
    /\ out.rows[Len(out.rows)].index = Len(out.rows) - 1
====
